---------------------------- MODULE Spec2Model ----------------------------
(***************************************************************************)
(* The game session of briefjesspel (class Game, src/unnamed/part_000).    *)
(*                                                                         *)
(* The Game object is the record `game`; every public method is an         *)
(* operator from a call frame [g, emitted, threw] to the frame after the   *)
(* call, and one action per method applies it to the current object.       *)
(* `emitted` is the list of events the last call emitted, `threw` whether  *)
(* it ended in a TypeError, `call` names the last call and its arguments.  *)
(*                                                                         *)
(* JavaScript semantics the code depends on are modelled as they are:      *)
(*   - an Array has no `size` property (ArraySize); a Map has (MapSize);   *)
(*   - `for (x in it)` enumerates the enumerable property keys of `it`:    *)
(*     none for a Map iterator (ForInMapIterator), the index strings for   *)
(*     an Array (ForInArray);                                              *)
(*   - a class body is strict code: setting a property on a string, or     *)
(*     calling a property that is not a function, throws a TypeError.      *)
(***************************************************************************)
EXTENDS Integers, Sequences, FiniteSets, TLC

(***************************************************************************)
(* Bounds of the model.                                                    *)
(***************************************************************************)
MaxEntries == 1
MaxTurnTime == 1
MaxCalls == 5
MaxDataCalls == 3

PlayerIds == {"p1", "p2"}
TeamIds == {"t1", "t2"}
EntryTexts == {"e1", "e2"}
Names == {"", "n1"}
Fonts == {"f1"}

(***************************************************************************)
(* JavaScript values: null and undefined where an id is expected, and      *)
(* undefined where a number is expected.                                   *)
(***************************************************************************)
null == "null"
undefinedRef == "undefined"
undefined == -1

Truthy(v) == v \notin {0, undefined}
TruthyRef(v) == v \notin {"", null}

ArraySize(a) == undefined
MapSize(m) == Len(m)
ForInMapIterator(m) == << >>
ForInArray(a) == [i \in 1..Len(a) |-> i - 1]

Range(s) == {s[i] : i \in 1..Len(s)}

Bijections(n) == {p \in [1..n -> 1..n] : \A i, j \in 1..n : p[i] = p[j] => i = j}
shuffle(a) == {[i \in 1..Len(a) |-> a[p[i]]] : p \in Bijections(Len(a))}

\* game: the Game object; prev: the object before the last call; call: the last
\* call; emitted: the events it emitted; threw: whether it ended in a TypeError;
\* calls: how many more calls the session will receive; served: the turn-order
\* queues the current run of consecutive nextTurn calls started from, one per call
VARIABLES game, prev, call, emitted, threw, calls, served
vars == <<game, prev, call, emitted, threw, calls, served>>

(***************************************************************************)
(* User and Team records handed to addPlayer and addTeam.                  *)
(***************************************************************************)
NewUser(id) ==
  [id |-> id, name |-> "", font |-> null, teamId |-> null,
   entries |-> << >>, isReady |-> FALSE]

NewTeam(id) == [id |-> id, score |-> 0]

(***************************************************************************)
(* constructor(data = {}): every field is data.field || default, so a      *)
(* falsy value in the data is replaced by the default.  this.timer is not  *)
(* set: no interval is running (timer is the last handle setInterval       *)
(* returned, 0 for none; live is the set of handles still scheduled).      *)
(***************************************************************************)
NoData ==
  [master |-> null, players |-> << >>, removedPlayers |-> {}, teams |-> << >>,
   entriesPerPlayer |-> 0, entries |-> << >>, turnOrder |-> << >>,
   isStarted |-> FALSE, isFinished |-> FALSE,
   turnTime |-> 0, scorePerEntry |-> 0,
   entriesRemaining |-> << >>, roundStarted |-> FALSE, roundFinished |-> FALSE,
   turnStarted |-> FALSE, turnFinished |-> FALSE, turnTimeLeft |-> 0]

constructor(data) ==
  [master |-> IF TruthyRef(data.master) THEN data.master ELSE null,
   players |-> data.players,
   removedPlayers |-> data.removedPlayers,
   teams |-> data.teams,
   entriesPerPlayer |-> IF Truthy(data.entriesPerPlayer)
                        THEN data.entriesPerPlayer ELSE 0,
   entries |-> data.entries,
   turnOrder |-> data.turnOrder,
   isStarted |-> data.isStarted \/ FALSE,
   isFinished |-> data.isFinished \/ FALSE,
   turnTime |-> IF Truthy(data.turnTime) THEN data.turnTime ELSE 0,
   scorePerEntry |-> IF Truthy(data.scorePerEntry) THEN data.scorePerEntry ELSE 1,
   entriesRemaining |-> data.entriesRemaining,
   roundStarted |-> data.roundStarted \/ FALSE,
   roundFinished |-> data.roundFinished \/ FALSE,
   turnStarted |-> data.turnStarted \/ FALSE,
   turnFinished |-> data.turnFinished \/ FALSE,
   turnTimeLeft |-> IF Truthy(data.turnTimeLeft) THEN data.turnTimeLeft ELSE 0,
   timer |-> 0, live |-> {}]

NewGame == constructor(NoData)

(***************************************************************************)
(* Saved sessions a Game is constructed from (new Game(data)).             *)
(*                                                                         *)
(* LobbyData: p1 has joined as master, is named and in team t1, and the    *)
(* quota is one entry per player; p1 has not submitted an entry yet.       *)
(*                                                                         *)
(* RoundData: a running round of two teams with one player each, two       *)
(* entries in the master list, all of them still to play, no turn started. *)
(* The queue order, the stack order and the master vary.                   *)
(***************************************************************************)
SavedUser(id, teamId, entries, isReady) ==
  [NewUser(id) EXCEPT !.name = "n1", !.teamId = teamId,
                      !.entries = entries, !.isReady = isReady]

LobbyData ==
  [NoData EXCEPT !.master = "p1",
                 !.players = <<SavedUser("p1", "t1", << >>, FALSE)>>,
                 !.teams = <<NewTeam("t1")>>,
                 !.entriesPerPlayer = 1,
                 !.turnTime = 1]

RoundData ==
  {[NoData EXCEPT !.master = m,
                  !.players = <<SavedUser("p1", "t1", <<"e1">>, TRUE),
                                SavedUser("p2", "t2", <<"e2">>, TRUE)>>,
                  !.teams = <<NewTeam("t1"), NewTeam("t2")>>,
                  !.entriesPerPlayer = 1,
                  !.entries = <<"e1", "e2">>,
                  !.turnOrder = order,
                  !.isStarted = TRUE,
                  !.turnTime = 1,
                  !.entriesRemaining = es,
                  !.roundStarted = TRUE,
                  !.turnTimeLeft = 1] :
     m \in {"p1", "p2"},
     order \in shuffle(<<[teamId |-> "t1", players |-> <<"p1">>],
                         [teamId |-> "t2", players |-> <<"p2">>]>>),
     es \in shuffle(<<"e1", "e2">>)}

\* A saved lobby whose only player is recorded as ready with one entry.
ReadyLobbyData ==
  [LobbyData EXCEPT !.players = <<SavedUser("p1", "t1", <<"e1">>, TRUE)>>]

SavedSessions == {LobbyData, ReadyLobbyData} \cup RoundData

Frame(g) == [g |-> g, emitted |-> << >>, threw |-> FALSE]

\* emit(event, args): save() and deliver the event
emit(f, event) == [f EXCEPT !.emitted = Append(@, event)]

\* Map helpers: a Map is the sequence of its values in insertion order
MapHas(m, id) == \E i \in 1..Len(m) : m[i].id = id
MapIndex(m, id) == CHOOSE i \in 1..Len(m) : m[i].id = id
MapGet(m, id) == m[MapIndex(m, id)]
MapSet(m, v) ==
  IF MapHas(m, v.id) THEN [m EXCEPT ![MapIndex(m, v.id)] = v] ELSE Append(m, v)
MapDelete(m, id) == LET Keep(v) == v.id # id IN SelectSeq(m, Keep)
MapIds(m) == {m[i].id : i \in 1..Len(m)}

Front(a) == IF Len(a) > 0 THEN a[1] ELSE undefinedRef
Last(a) == IF Len(a) > 0 THEN a[Len(a)] ELSE undefinedRef
pop(a) == IF Len(a) > 0 THEN SubSeq(a, 1, Len(a) - 1) ELSE a

(***************************************************************************)
(* getters                                                                 *)
(***************************************************************************)
canStart(g) ==
  /\ ~g.isStarted
  /\ \A i \in 1..Len(g.players) :
       g.players[i].isReady /\ TruthyRef(g.players[i].teamId)

canStartRound(g) ==
  g.isStarted /\ ~g.roundStarted /\ Truthy(g.turnTime) /\ Truthy(g.scorePerEntry)

canStartTurn(g) ==
  g.roundStarted /\ ~g.turnStarted /\ Truthy(ArraySize(g.entriesRemaining))

activeTeam(g) ==
  IF Truthy(ArraySize(g.turnOrder)) THEN Front(g.turnOrder).teamId ELSE null

activePlayer(g) ==
  IF Truthy(ArraySize(g.turnOrder)) THEN Front(Front(g.turnOrder).players) ELSE null

activeEntry(g) == Last(g.entriesRemaining)

(***************************************************************************)
(* private methods                                                         *)
(***************************************************************************)
_playerIsReady(g, user) ==
  /\ TruthyRef(user.name)
  /\ Truthy(g.entriesPerPlayer)
  /\ ArraySize(user.entries) = g.entriesPerPlayer

_checkPlayerReady(f, userId) ==
  LET user == MapGet(f.g.players, userId) IN
  IF ~user.isReady /\ _playerIsReady(f.g, user)
  THEN emit([f EXCEPT !.g.players = MapSet(@, [user EXCEPT !.isReady = TRUE])],
            <<"playerReady", userId>>)
  ELSE f

\* for (const user in this.players.values()) for (const entry in user.entries)
\*   this.entries.push(entry): the outer loop runs over the keys of the iterator
_fillEntries(f) ==
  LET keys == ForInMapIterator(f.g.players)
  IN [f EXCEPT !.g.entries = @ \o [i \in 1..Len(keys) |-> undefinedRef]]

_playersForTeam(g, teamId) ==
  LET OfTeam(user) == user.teamId = teamId IN SelectSeq(g.players, OfTeam)

\* The values this.turnOrder can have after _randomizeTurnOrder(): one entry per
\* key of `for (const team in this.teams.values())`, where team is the key (a
\* string, so team.id is undefined), then shuffled.
TurnOrderOutcomes(g) ==
  LET keys == ForInMapIterator(g.teams)
      idsOf(teamId) == [i \in 1..Len(_playersForTeam(g, teamId)) |->
                          _playersForTeam(g, teamId)[i].id]
      built == [i \in 1..Len(keys) |->
                  [teamId |-> undefinedRef, players |-> idsOf(undefinedRef)]]
  IN shuffle(built)

_randomizeTurnOrder(f, order) == [f EXCEPT !.g.turnOrder = order]

\* this.entriesRemaining = [...this.entries]; shuffle(this.entriesRemaining)
EntriesOutcomes(g) == shuffle(g.entries)

_randomizeEntries(f, es) == [f EXCEPT !.g.entriesRemaining = es]

_startTimer(f) ==
  [f EXCEPT !.g.timer = @ + 1, !.g.live = @ \cup {f.g.timer + 1}]

clearInterval(f) == [f EXCEPT !.g.live = @ \ {f.g.timer}]

\* _score() that credits every registered team.
_scoreEveryTeam(f) ==
  emit([f EXCEPT !.g.teams =
           [i \in 1..Len(@) |-> [@[i] EXCEPT !.score = @ + f.g.scorePerEntry]]],
       <<"teamScored", null>>)

_score(f) ==
  LET teamId == activeTeam(f.g) IN
  IF MapHas(f.g.teams, teamId)
  THEN LET team == MapGet(f.g.teams, teamId) IN
       emit([f EXCEPT !.g.teams =
                MapSet(@, [team EXCEPT !.score = @ + f.g.scorePerEntry])],
            <<"teamScored", teamId>>)
  ELSE f

\* const team = this.turnOrder.shift(); team.push(team.players.shift()):
\* team is undefined when the queue is empty, and an entry {teamId, players} has
\* no push method, so both cases end in a TypeError after the shift.
_shiftTurn(f) ==
  IF Len(f.g.turnOrder) = 0
  THEN [f EXCEPT !.threw = TRUE]
  ELSE [f EXCEPT !.g.turnOrder = Tail(@), !.threw = TRUE]

(***************************************************************************)
(* public methods                                                          *)
(***************************************************************************)
addPlayer(f, userId, isMaster) ==
  IF ~MapHas(f.g.players, userId)
  THEN LET f1 == [f EXCEPT !.g.players = MapSet(@, NewUser(userId))]
           f2 == IF isMaster THEN [f1 EXCEPT !.g.master = userId] ELSE f1
       IN emit(f2, <<"playerAdded", userId>>)
  ELSE f

setPlayerName(f, userId, name) ==
  IF MapHas(f.g.players, userId)
  THEN LET user == MapGet(f.g.players, userId)
           f1 == [f EXCEPT !.g.players = MapSet(@, [user EXCEPT !.name = name])]
       IN _checkPlayerReady(emit(f1, <<"playerNameSet", userId>>), userId)
  ELSE f

setFont(f, userId, font) ==
  IF MapHas(f.g.players, userId)
  THEN LET user == MapGet(f.g.players, userId)
           f1 == [f EXCEPT !.g.players = MapSet(@, [user EXCEPT !.font = font])]
       IN emit(f1, <<"playerFontSet", userId>>)
  ELSE f

\* removePlayer() that deletes the player from the registry only and leaves the
\* turn-order entries as they are.
removePlayerRegistryOnly(f, userId, byHimself) ==
  IF MapHas(f.g.players, userId) /\ activePlayer(f.g) # userId
  THEN LET f1 == [f EXCEPT !.g.players = MapDelete(@, userId)]
           f2 == IF userId = f1.g.master /\ Truthy(MapSize(f1.g.players))
                 THEN [f1 EXCEPT !.g.master = f1.g.players[1].id]
                 ELSE f1
       IN IF byHimself
          THEN emit(f2, <<"playerLeft", userId>>)
          ELSE emit([f2 EXCEPT !.g.removedPlayers = @ \cup {userId}],
                    <<"playerRemoved", userId>>)
  ELSE f

removePlayer(f, userId, byHimself) ==
  IF MapHas(f.g.players, userId) /\ activePlayer(f.g) # userId
  THEN LET NotHim(id) == id # userId
           f1 == [f EXCEPT !.g.players = MapDelete(@, userId),
                           !.g.turnOrder =
                              [i \in 1..Len(@) |->
                                 [@[i] EXCEPT !.players = SelectSeq(@, NotHim)]]]
           f2 == IF userId = f1.g.master /\ Truthy(MapSize(f1.g.players))
                 THEN [f1 EXCEPT !.g.master = f1.g.players[1].id]
                 ELSE f1
       IN IF byHimself
          THEN emit(f2, <<"playerLeft", userId>>)
          ELSE emit([f2 EXCEPT !.g.removedPlayers = @ \cup {userId}],
                    <<"playerRemoved", userId>>)
  ELSE f

setEntriesPerPlayer(f, entriesPerPlayer) ==
  emit([f EXCEPT !.g.entriesPerPlayer = entriesPerPlayer],
       <<"entriesPerPlayerUpdated", null>>)

addEntry(f, userId, entry) ==
  IF MapHas(f.g.players, userId)
  THEN LET user == MapGet(f.g.players, userId)
           f1 == [f EXCEPT !.g.players =
                     MapSet(@, [user EXCEPT !.entries = Append(@, entry)])]
       IN _checkPlayerReady(f1, userId)
  ELSE f

addTeam(f, teamId) ==
  emit([f EXCEPT !.g.teams = MapSet(@, NewTeam(teamId))], <<"teamAdded", teamId>>)

\* addPlayerToTeam() that does not look the team up in the registry.
addPlayerToTeamUnchecked(f, userId, teamId) ==
  IF MapHas(f.g.players, userId)
  THEN LET user == MapGet(f.g.players, userId)
       IN emit([f EXCEPT !.g.players = MapSet(@, [user EXCEPT !.teamId = teamId])],
               <<"playerAddedToTeam", userId>>)
  ELSE f

addPlayerToTeam(f, userId, teamId) ==
  IF MapHas(f.g.players, userId) /\ MapHas(f.g.teams, teamId)
  THEN LET user == MapGet(f.g.players, userId)
       IN emit([f EXCEPT !.g.players = MapSet(@, [user EXCEPT !.teamId = teamId])],
               <<"playerAddedToTeam", userId>>)
  ELSE f

\* for (const user in this._playersForTeam(teamId)) user.teamId = null: user is
\* an index string, and the assignment throws in strict code.
removeTeam(f, teamId) ==
  IF MapHas(f.g.teams, teamId) /\ activeTeam(f.g) # teamId
  THEN LET NotIt(team) == team.teamId # teamId
           f1 == [f EXCEPT !.g.teams = MapDelete(@, teamId),
                           !.g.turnOrder = SelectSeq(@, NotIt)]
           keys == ForInArray(_playersForTeam(f1.g, teamId))
       IN IF Len(keys) > 0
          THEN [f1 EXCEPT !.threw = TRUE]
          ELSE emit(f1, <<"teamRemoved", teamId>>)
  ELSE f

setTurnTime(f, turnTime) ==
  emit([f EXCEPT !.g.turnTime = turnTime], <<"turnTimeUpdated", null>>)

startRound(f, order, es) ==
  IF canStartRound(f.g)
  THEN LET f1 == _randomizeEntries(_randomizeTurnOrder(f, order), es)
       IN emit([f1 EXCEPT !.g.turnTimeLeft = f1.g.turnTime,
                          !.g.roundStarted = TRUE],
               <<"roundStarted", null>>)
  ELSE f

start(f, order, es) ==
  IF canStart(f.g)
  THEN LET f1 == _fillEntries(f)
       IN startRound(emit([f1 EXCEPT !.g.isStarted = TRUE], <<"started", null>>),
                     order, es)
  ELSE f

startTurn(f) ==
  IF canStartTurn(f.g)
  THEN emit([_startTimer(f) EXCEPT !.g.turnStarted = TRUE], <<"turnStarted", null>>)
  ELSE f

finishRound(f) ==
  emit([clearInterval(f) EXCEPT !.g.roundFinished = TRUE], <<"roundFinished", null>>)

nextEntry(f) ==
  LET f1 == _score(f)
      f2 == [f1 EXCEPT !.g.entriesRemaining = pop(@)]
  IN IF Truthy(ArraySize(f2.g.entriesRemaining))
     THEN emit(f2, <<"nextEntry", null>>)
     ELSE finishRound(f2)

finishTurn(f, es) ==
  emit(_randomizeEntries([f EXCEPT !.g.turnFinished = TRUE], es),
       <<"turnFinished", null>>)

nextTurn(f) ==
  LET f1 == _shiftTurn(f) IN
  IF f1.threw
  THEN f1
  ELSE emit([f1 EXCEPT !.g.turnStarted = FALSE, !.g.turnFinished = FALSE,
                       !.g.turnTimeLeft = f1.g.turnTime],
            <<"nextTurn", null>>)

nextRound(f) ==
  emit([f EXCEPT !.g.roundStarted = FALSE, !.g.roundFinished = FALSE,
                 !.g.turnTimeLeft = f.g.turnTime],
       <<"nextRound", null>>)

finish(f) == emit([f EXCEPT !.g.isFinished = TRUE], <<"finished", null>>)

(***************************************************************************)
(* One action per command: the call is applied to the current object.      *)
(***************************************************************************)
Invoke(name, args, f) ==
  /\ calls > 0
  /\ calls' = calls - 1
  /\ prev' = game
  /\ game' = f.g
  /\ emitted' = f.emitted
  /\ threw' = f.threw
  /\ call' = [name |-> name, args |-> args]
  /\ served' = IF name = "nextTurn" THEN Append(served, game.turnOrder) ELSE << >>

CallAddPlayer ==
  \E id \in PlayerIds, isMaster \in BOOLEAN :
    Invoke("addPlayer", <<id, isMaster>>, addPlayer(Frame(game), id, isMaster))

CallSetPlayerName ==
  \E id \in PlayerIds, name \in Names :
    Invoke("setPlayerName", <<id, name>>, setPlayerName(Frame(game), id, name))

CallSetFont ==
  \E id \in PlayerIds, font \in Fonts :
    Invoke("setFont", <<id, font>>, setFont(Frame(game), id, font))

CallRemovePlayer ==
  \E id \in PlayerIds, byHimself \in BOOLEAN :
    Invoke("removePlayer", <<id, byHimself>>,
           removePlayer(Frame(game), id, byHimself))

CallSetEntriesPerPlayer ==
  \E n \in 0..MaxEntries :
    Invoke("setEntriesPerPlayer", <<n>>, setEntriesPerPlayer(Frame(game), n))

CallAddEntry ==
  \E id \in PlayerIds, entry \in EntryTexts :
    /\ MapHas(game.players, id) => Len(MapGet(game.players, id).entries) < MaxEntries
    /\ Invoke("addEntry", <<id, entry>>, addEntry(Frame(game), id, entry))

CallAddTeam ==
  \E id \in TeamIds : Invoke("addTeam", <<id>>, addTeam(Frame(game), id))

CallAddPlayerToTeam ==
  \E id \in PlayerIds, teamId \in TeamIds :
    Invoke("addPlayerToTeam", <<id, teamId>>,
           addPlayerToTeam(Frame(game), id, teamId))

CallRemoveTeam ==
  \E id \in TeamIds : Invoke("removeTeam", <<id>>, removeTeam(Frame(game), id))

CallSetTurnTime ==
  \E t \in 0..MaxTurnTime : Invoke("setTurnTime", <<t>>, setTurnTime(Frame(game), t))

CallStart ==
  \E order \in TurnOrderOutcomes(game),
     es \in EntriesOutcomes(_fillEntries(Frame(game)).g) :
    Invoke("start", << >>, start(Frame(game), order, es))

CallStartRound ==
  \E order \in TurnOrderOutcomes(game), es \in EntriesOutcomes(game) :
    Invoke("startRound", << >>, startRound(Frame(game), order, es))

CallStartTurn == Invoke("startTurn", << >>, startTurn(Frame(game)))

CallNextEntry == Invoke("nextEntry", << >>, nextEntry(Frame(game)))

CallFinishTurn ==
  \E es \in EntriesOutcomes(game) :
    Invoke("finishTurn", << >>, finishTurn(Frame(game), es))

CallNextTurn == Invoke("nextTurn", << >>, nextTurn(Frame(game)))

CallFinishRound == Invoke("finishRound", << >>, finishRound(Frame(game)))

CallNextRound == Invoke("nextRound", << >>, nextRound(Frame(game)))

CallFinish == Invoke("finish", << >>, finish(Frame(game)))

Init ==
  /\ game = NewGame
  /\ prev = game
  /\ calls = MaxCalls
  /\ emitted = << >>
  /\ threw = FALSE
  /\ call = [name |-> "constructor", args |-> << >>]
  /\ served = << >>

Next ==
  \/ CallAddPlayer
  \/ CallSetPlayerName
  \/ CallSetFont
  \/ CallRemovePlayer
  \/ CallSetEntriesPerPlayer
  \/ CallAddEntry
  \/ CallAddTeam
  \/ CallAddPlayerToTeam
  \/ CallRemoveTeam
  \/ CallSetTurnTime
  \/ CallStart
  \/ CallStartRound
  \/ CallStartTurn
  \/ CallNextEntry
  \/ CallFinishTurn
  \/ CallNextTurn
  \/ CallFinishRound
  \/ CallNextRound
  \/ CallFinish

Spec == Init /\ [][Next]_vars

\* The session is constructed from saved data.
InitData ==
  /\ \E data \in SavedSessions : game = constructor(data)
  /\ prev = game
  /\ calls = MaxDataCalls
  /\ emitted = << >>
  /\ threw = FALSE
  /\ call = [name |-> "constructor", args |-> << >>]
  /\ served = << >>

SpecData == InitData /\ [][Next]_vars

(***************************************************************************)
(* The callback _startTimer() schedules every second, for the interval     *)
(* with handle h.  startTurn() is the only caller of _startTimer(), and    *)
(* canStartTurn is never truthy (NoTimerEverRuns), so the callback joins   *)
(* the next-state relation only in SpecTimer.                              *)
(***************************************************************************)
TimerCallback(f, es) ==
  LET f1 == [f EXCEPT !.g.turnTimeLeft = @ - 1] IN
  IF f1.g.turnTimeLeft = 0 THEN finishTurn(clearInterval(f1), es) ELSE f1

TimerFired ==
  \E h \in game.live, es \in EntriesOutcomes(game) :
    Invoke("timer", <<h>>, TimerCallback(Frame(game), es))

SpecTimer == Init /\ [][Next \/ TimerFired]_vars

NoTimerEverRuns == game.live = {} /\ ~game.turnStarted

(***************************************************************************)
(* Vocabulary of the properties.  The active team and player of the        *)
(* specification are the front of the turn-order queue.                    *)
(***************************************************************************)
Called(name) == call.name = name
Emitted(name) == \E i \in 1..Len(emitted) : emitted[i][1] = name
NoOp == game = prev /\ emitted = << >> /\ ~threw

QueueFrontTeam(g) == Front(g.turnOrder).teamId
QueueFrontPlayer(g) == Front(Front(g.turnOrder).players)
QueuePlayers(q) == UNION {Range(q[i].players) : i \in 1..Len(q)}
QueueTeams(q) == {q[i].teamId : i \in 1..Len(q)}
TeamScore(g, teamId) == MapGet(g.teams, teamId).score

Count(a, x) == Cardinality({i \in 1..Len(a) : a[i] = x})
SameEntries(a, b) == \A x \in Range(a) \cup Range(b) : Count(a, x) = Count(b, x)

Prepared(g, user) ==
  /\ user.name # ""
  /\ user.teamId # null
  /\ g.entriesPerPlayer # 0
  /\ Len(user.entries) = g.entriesPerPlayer

AllPrepared(g) == \A i \in 1..Len(g.players) : Prepared(g, g.players[i])

\* C1: in a pending session start() succeeds (the game is started and `started`
\* is emitted) exactly when every registered player has a name, a team and as
\* many entries as the nonzero quota; otherwise start() changes nothing.
C1_StartIffAllPrepared ==
  (Called("start") /\ ~prev.isStarted) =>
     /\ (game.isStarted /\ Emitted("started")) <=> AllPrepared(prev)
     /\ ~game.isStarted => NoOp

\* C2: a nextEntry() that consumes an entry credits scorePerEntry to the team at
\* the front of the queue before the pop, and `teamScored` for that team is the
\* first event of the call.
C2_ScoresFrontTeam ==
  (/\ Called("nextEntry")
   /\ Len(prev.entriesRemaining) > 0
   /\ Len(prev.turnOrder) > 0
   /\ MapHas(prev.teams, QueueFrontTeam(prev))) =>
     /\ Len(game.entriesRemaining) = Len(prev.entriesRemaining) - 1
     /\ MapHas(game.teams, QueueFrontTeam(prev))
     /\ TeamScore(game, QueueFrontTeam(prev)) =
          TeamScore(prev, QueueFrontTeam(prev)) + prev.scorePerEntry
     /\ Len(emitted) > 0
     /\ emitted[1] = <<"teamScored", QueueFrontTeam(prev)>>

\* C3: finishTurn() reshuffles the entries still in the stack: the stack after
\* the call holds the same entries as before it, so a consumed entry does not
\* come back.
C3_FinishTurnKeepsRemaining ==
  Called("finishTurn") => SameEntries(game.entriesRemaining, prev.entriesRemaining)

\* C4: finishTurn() on a turn that is already finished is a no-op: the session
\* is unchanged and no second `turnFinished` is emitted.
C4_FinishTurnIdempotent ==
  (Called("finishTurn") /\ prev.turnFinished) => NoOp

IsRotation(a, b) ==
  /\ Len(a) = Len(b)
  /\ \E r \in 0..Len(a) : \A i \in 1..Len(a) : a[i] = b[((i - 1 + r) % Len(a)) + 1]

\* C6: after as many consecutive nextTurn() calls as the queue has players (the
\* queue holding every registered team and player, each team with a player, when
\* the first call is made, as a queue built by startRound would), each
\* call found a player at the front of the queue, every player of the queue was
\* at the front exactly once, and every team is still in the queue with its
\* players in the same cyclic order.
C6_RoundRobin ==
  (/\ Called("nextTurn")
   /\ Len(served) > 0
   /\ \A k \in 1..Len(served[1]) : Len(served[1][k].players) > 0
   /\ QueueTeams(served[1]) = MapIds(prev.teams)
   /\ QueuePlayers(served[1]) = MapIds(prev.players)
   /\ Len(served) = Cardinality(QueuePlayers(served[1]))) =>
     /\ \A i \in 1..Len(served) : Len(served[i]) > 0
     /\ {Front(Front(served[i]).players) : i \in 1..Len(served)} =
          QueuePlayers(served[1])
     /\ \A k \in 1..Len(served[1]) : \E j \in 1..Len(game.turnOrder) :
          /\ game.turnOrder[j].teamId = served[1][k].teamId
          /\ IsRotation(game.turnOrder[j].players, served[1][k].players)

\* C7: removePlayer(id) of the player at the front of the queue, and
\* removeTeam(id) of the team at the front of the queue, are refused: nothing
\* changes and nothing is emitted.
C7_ActiveRemovalRefused ==
  /\ (/\ Called("removePlayer")
      /\ Len(prev.turnOrder) > 0
      /\ Len(Front(prev.turnOrder).players) > 0
      /\ call.args[1] = QueueFrontPlayer(prev)) => NoOp
  /\ (/\ Called("removeTeam")
      /\ Len(prev.turnOrder) > 0
      /\ call.args[1] = QueueFrontTeam(prev)) => NoOp

\* C8: while a round is in progress the turn-order queue is not empty and its
\* front entry has a player.
C8_QueueNonEmptyInRound ==
  game.roundStarted =>
     /\ Len(game.turnOrder) > 0
     /\ Len(Front(game.turnOrder).players) > 0

\* C9: removePlayer(id) of a registered player who is not at the front of the
\* queue deletes id from the registry and from every queue entry in that call;
\* if id was the master and players remain, the master is then one of them.
C9_RemovalIsComplete ==
  (/\ Called("removePlayer")
   /\ MapHas(prev.players, call.args[1])
   /\ (Len(prev.turnOrder) > 0 => call.args[1] # QueueFrontPlayer(prev))) =>
     /\ ~MapHas(game.players, call.args[1])
     /\ call.args[1] \notin QueuePlayers(game.turnOrder)
     /\ (prev.master = call.args[1] /\ Len(game.players) > 0) =>
          /\ game.master # call.args[1]
          /\ MapHas(game.players, game.master)

\* A player who is the master and waits in the queue behind the active player is
\* removed during a round, and another player remains.
C9_Witness ==
  /\ Called("removePlayer")
  /\ prev.roundStarted
  /\ MapHas(prev.players, call.args[1])
  /\ prev.master = call.args[1]
  /\ call.args[1] \in QueuePlayers(prev.turnOrder)
  /\ call.args[1] # QueueFrontPlayer(prev)
  /\ Len(game.players) > 0
  /\ Emitted("playerRemoved")

\* C10: addPlayer(id) for an id in the removed-set is ignored: the id does not
\* come back into the registry and no `playerAdded` is emitted.
C10_RemovedCannotRejoin ==
  (Called("addPlayer") /\ call.args[1] \in prev.removedPlayers) =>
     /\ ~MapHas(game.players, call.args[1])
     /\ ~Emitted("playerAdded")

\* The guard the specification gives startTurn(): a round is active, no turn is
\* active and the stack holds an entry.
TurnCanStart(g) == g.roundStarted /\ ~g.turnStarted /\ Len(g.entriesRemaining) > 0

\* C11: startTurn() starts a turn (the turn is active, a countdown is running,
\* `turnStarted` is emitted) exactly when a round is active, no turn is active
\* and the stack holds an entry; otherwise it changes nothing and starts no timer.
C11_StartTurnIffGuard ==
  Called("startTurn") =>
     IF TurnCanStart(prev)
     THEN game.turnStarted /\ game.live # {} /\ Emitted("turnStarted")
     ELSE NoOp /\ game.live = prev.live

\* C12: the three state axes stay nested: a turn is active or finished only
\* while a round is active, and a round is active or finished only while the
\* game is started and not finished.
C12_AxesNested ==
  /\ (game.turnStarted \/ game.turnFinished) => game.roundStarted
  /\ (game.roundStarted \/ game.roundFinished) => (game.isStarted /\ ~game.isFinished)

\* C13: a player's readiness flag is true exactly when the player has a name,
\* the quota is nonzero and the player has as many entries as the quota.
C13_ReadyIffQuotaMet ==
  \A i \in 1..Len(game.players) :
     game.players[i].isReady <=>
        /\ game.players[i].name # ""
        /\ game.entriesPerPlayer # 0
        /\ Len(game.players[i].entries) = game.entriesPerPlayer

\* A command that names a player or a team the registries do not hold.
UnknownTarget ==
  \/ /\ call.name \in {"setPlayerName", "setFont", "addEntry", "removePlayer"}
     /\ ~MapHas(prev.players, call.args[1])
  \/ /\ Called("addPlayerToTeam")
     /\ ~MapHas(prev.players, call.args[1]) \/ ~MapHas(prev.teams, call.args[2])
  \/ /\ Called("removeTeam")
     /\ ~MapHas(prev.teams, call.args[1])

\* C14: a player or team command that names an unknown id is a no-op: the
\* session is unchanged, nothing is emitted and nothing is thrown.
C14_UnknownIdIsNoOp == UnknownTarget => NoOp

\* A registered player is assigned to a team that is not registered.
C14_Witness ==
  /\ Called("addPlayerToTeam")
  /\ MapHas(prev.players, call.args[1])
  /\ ~MapHas(prev.teams, call.args[2])
  /\ Len(prev.teams) > 0
  /\ NoOp

\* C15: no command ends in an exception.
C15_NoCommandThrows == ~threw

\* The queue after one advance: the front entry goes to the back with its front
\* player moved to the back of its player list.
Rotated(q) ==
  Tail(q) \o <<[q[1] EXCEPT !.players = Tail(@) \o <<q[1].players[1]>>]>>

\* C17: nextTurn() moves the front entry of the queue to the back, with its
\* front player moved to the back of the entry's player list, keeps the order of
\* everything else, sets the turn to idle and resets turnTimeLeft to turnTime.
C17_NextTurnRotates ==
  (/\ Called("nextTurn")
   /\ Len(prev.turnOrder) > 0
   /\ Len(prev.turnOrder[1].players) > 0) =>
     /\ game.turnOrder = Rotated(prev.turnOrder)
     /\ ~game.turnStarted
     /\ ~game.turnFinished
     /\ game.turnTimeLeft = game.turnTime
     /\ Emitted("nextTurn")

\* C18: a nextEntry() that leaves an entry in the stack emits `nextEntry` and
\* leaves the round active and not finished; a nextEntry() that pops the last
\* entry finishes the round (roundFinished, no countdown, `roundFinished`).
C18_RoundEndsWhenStackEmpties ==
  (/\ Called("nextEntry")
   /\ prev.roundStarted
   /\ ~prev.roundFinished
   /\ Len(prev.entriesRemaining) > 0) =>
     IF Len(prev.entriesRemaining) > 1
     THEN /\ Emitted("nextEntry")
          /\ game.roundStarted
          /\ ~game.roundFinished
          /\ ~Emitted("roundFinished")
     ELSE /\ game.roundFinished
          /\ game.live = {}
          /\ Emitted("roundFinished")

RECURSIVE Submitted(_)
\* The entries of the players in registry order, concatenated.
Submitted(users) ==
  IF users = << >> THEN << >>
  ELSE Head(users).entries \o Submitted(Tail(users))

\* C19: a successful start() leaves the master entry list equal, as a multiset,
\* to the entries the registered players had submitted, and the first round's
\* stack a permutation of it; no removePlayer after the start changes the master
\* entry list.
C19_MasterListIsSubmitted ==
  /\ (Called("start") /\ Emitted("started")) =>
        /\ SameEntries(game.entries, Submitted(prev.players))
        /\ game.roundStarted => SameEntries(game.entriesRemaining, game.entries)
  /\ (Called("removePlayer") /\ prev.isStarted) => game.entries = prev.entries

\* The teams registered before and after the last call whose score differs.
ScoreChanged ==
  {id \in MapIds(prev.teams) \cap MapIds(game.teams) :
      TeamScore(game, id) # TeamScore(prev, id)}

C21_TeamIdsAreRegistered ==
  \A i \in 1..Len(game.players) :
     \/ game.players[i].teamId = null
     \/ game.players[i].teamId \in MapIds(game.teams)

=============================================================================
